---- MODULE Spec2Model ----
(***************************************************************************)
(* Dependency resolution subsystem of pastemax: the import extractor       *)
(* (src/utils/importParser.ts), the path resolver and dependency walker    *)
(* (src/utils/pathResolver.ts) and the dependency part of the App state.   *)
(* Strings of the program are TLA+ strings; characters are strings of      *)
(* length one, taken with SubSeq.                                          *)
(***************************************************************************)
EXTENDS Integers, Sequences, FiniteSets, TLC

(***************************************************************************)
(* Bounds of the model.                                                    *)
(***************************************************************************)
MaxImports == 2     \* import statements in the generated project

(***************************************************************************)
(* JavaScript string primitives used by the source.                        *)
(***************************************************************************)
\* Body applied to the value of v
With(v, Body(_)) == CHOOSE r \in {Body(w) : w \in {v}} : TRUE

charAt(s, i) == IF i >= 1 /\ i <= Len(s) THEN SubSeq(s, i, i) ELSE ""

startsWith(s, p) == Len(s) >= Len(p) /\ SubSeq(s, 1, Len(p)) = p

startsWithAt(s, p, i) == i >= 1 /\ i + Len(p) - 1 <= Len(s) /\ SubSeq(s, i, i + Len(p) - 1) = p

endsWith(s, p) == Len(s) >= Len(p) /\ SubSeq(s, Len(s) - Len(p) + 1, Len(s)) = p

includes(s, p) == \E i \in 1..(Len(s) + 1) : startsWithAt(s, p, i)

\* s.lastIndexOf(c) for a one-character c, 1-based; 0 when c does not occur
lastIndexOf(s, c) ==
  CHOOSE i \in 0..Len(s) :
    /\ i = 0 \/ SubSeq(s, i, i) = c
    /\ \A j \in (i + 1)..Len(s) : SubSeq(s, j, j) # c

\* s.indexOf(c, from) for a one-character c, 1-based; 0 when c does not occur
indexOfFrom(s, c, from) ==
  CHOOSE i \in (from..Len(s)) \cup {0} :
    IF i = 0 THEN \A j \in from..Len(s) : SubSeq(s, j, j) # c
    ELSE SubSeq(s, i, i) = c /\ \A j \in from..(i - 1) : SubSeq(s, j, j) # c

split(str, c) ==
  LET parts[s \in STRING] ==
        With(indexOfFrom(s, c, 1), LAMBDA k :
          IF k = 0 THEN <<s>> ELSE <<SubSeq(s, 1, k - 1)>> \o parts[SubSeq(s, k + 1, Len(s))])
  IN parts[str]

joinWith(strs, c) ==
  With(strs, LAMBDA parts :
    LET joined[k \in Nat] ==
          IF k > Len(parts) THEN ""
          ELSE IF k = Len(parts) THEN parts[k]
          ELSE parts[k] \o c \o joined[k + 1]
    IN joined[1])

UpperChars == "ABCDEFGHIJKLMNOPQRSTUVWXYZ"
LowerChars == "abcdefghijklmnopqrstuvwxyz"
UpperSet == {SubSeq(UpperChars, k, k) : k \in 1..26}
LowerOf == [c \in UpperSet |-> With(indexOfFrom(UpperChars, c, 1), LAMBDA k : SubSeq(LowerChars, k, k))]

\* the position of the first character of s that is in Chars; 0 when there is none
firstOf(s, Chars) ==
  CHOOSE i \in 0..Len(s) :
    IF i = 0 THEN \A j \in 1..Len(s) : SubSeq(s, j, j) \notin Chars
    ELSE SubSeq(s, i, i) \in Chars /\ \A j \in 1..(i - 1) : SubSeq(s, j, j) \notin Chars

\* s.toLowerCase(): the characters before the first capital are kept as they are
toLowerCase(str) ==
  LET lower[s \in STRING] ==
        With(firstOf(s, UpperSet), LAMBDA k :
          IF k = 0 THEN s
          ELSE SubSeq(s, 1, k - 1) \o LowerOf[SubSeq(s, k, k)] \o lower[SubSeq(s, k + 1, Len(s))])
  IN lower[str]

\* s.replace(/\\/g, '/')
replaceBackslashes(str) ==
  LET replaced[s \in STRING] ==
        With(indexOfFrom(s, "\\", 1), LAMBDA k :
          IF k = 0 THEN s
          ELSE SubSeq(s, 1, k - 1) \o "/" \o replaced[SubSeq(s, k + 1, Len(s))])
  IN replaced[str]

SeqToSet(seq) == With(seq, LAMBDA q : {q[i] : i \in 1..Len(q)})

FlatConcat(seqs) ==
  With(seqs, LAMBDA qs :
    LET rest[k \in Nat] == IF k > Len(qs) THEN <<>> ELSE qs[k] \o rest[k + 1]
    IN rest[1])

\* the elements of seq that are in keep, in order
SelectFrom(seq, keep) ==
  With(seq, LAMBDA q :
    With(keep, LAMBDA kept :
      FlatConcat([k \in 1..Len(q) |-> IF q[k] \in kept THEN <<q[k]>> ELSE <<>>])))

(***************************************************************************)
(* utils/pathUtils: normalizePath, dirname, join, resolvePath and          *)
(* arePathsEqual.                                                          *)
(***************************************************************************)
normalizePath(p) == replaceBackslashes(p)

arePathsEqual(p1, p2) == toLowerCase(normalizePath(p1)) = toLowerCase(normalizePath(p2))

dirname(p) ==
  With(normalizePath(p), LAMBDA n :
    With(lastIndexOf(n, "/"), LAMBDA k :
      IF k = 0 THEN "." ELSE IF k = 1 THEN "/" ELSE SubSeq(n, 1, k - 1)))

collapseSlashes(str) ==
  LET collapsed[s \in STRING] ==
        IF Len(s) < 2 THEN s
        ELSE IF SubSeq(s, 1, 2) = "//" THEN collapsed[SubSeq(s, 2, Len(s))]
        ELSE SubSeq(s, 1, 1) \o collapsed[SubSeq(s, 2, Len(s))]
  IN collapsed[str]

join(a, b) ==
  IF a = "" THEN normalizePath(b)
  ELSE IF b = "" THEN normalizePath(a)
  ELSE collapseSlashes(normalizePath(a) \o "/" \o normalizePath(b))

\* the segments of base after the segments segs of a relative path are applied
applySegments(baseSegments, relativeSegments) ==
  With(relativeSegments, LAMBDA segs :
    LET applied[k \in Nat, base \in Seq(STRING)] ==
          IF k > Len(segs) THEN base
          ELSE IF segs[k] = "" \/ segs[k] = "." THEN applied[k + 1, base]
          ELSE IF segs[k] = ".."
          THEN applied[k + 1, IF Len(base) > 1 THEN SubSeq(base, 1, Len(base) - 1) ELSE base]
          ELSE applied[k + 1, Append(base, segs[k])]
    IN applied[1, baseSegments])

resolvePath(dir, rel) ==
  joinWith(applySegments(split(normalizePath(dir), "/"), split(normalizePath(rel), "/")), "/")

(***************************************************************************)
(* utils/pathResolver.ts                                                   *)
(***************************************************************************)
FILE_EXTENSIONS_default == <<".js", ".ts", ".jsx", ".tsx", ".py", ".css", ".scss", ".sass">>

RecognizedImportExtensions == {"js", "jsx", "ts", "tsx", "mjs", "cjs", "py", "css", "scss", "sass"}

lastDotSegment(s) == With(split(s, "."), LAMBDA parts : toLowerCase(parts[Len(parts)]))

getFileExtensions(importPath) ==
  IF lastDotSegment(importPath) \in RecognizedImportExtensions
  THEN <<"">>
  ELSE FILE_EXTENSIONS_default

arePathsEquivalent(path1, path2) ==
  toLowerCase(replaceBackslashes(normalizePath(path1)))
    = toLowerCase(replaceBackslashes(normalizePath(path2)))

IndexFileNames == {"/index.js", "/index.ts", "/index.jsx", "/index.tsx"}

fileMatches(filePath, targetPath) ==
  \/ arePathsEquivalent(filePath, targetPath)
  \/ \E normalizedTarget \in {replaceBackslashes(normalizePath(targetPath))},
        normalizedFile \in {replaceBackslashes(normalizePath(filePath))} :
       \/ endsWith(normalizedFile, "/" \o normalizedTarget)
       \/ normalizedFile = normalizedTarget
       \/ \E ix \in IndexFileNames : endsWith(normalizedFile, "/" \o normalizedTarget \o ix)

\* mutant: the loop over the files stops at the first file that matches
findFirstMatchingFile(targetPath, allFiles) ==
  With(targetPath, LAMBDA target :
    With(allFiles, LAMBDA files :
      With(FlatConcat([k \in 1..Len(files) |->
             IF fileMatches(files[k].path, target) THEN <<files[k].path>> ELSE <<>>]),
           LAMBDA matchingPaths :
        IF Len(matchingPaths) = 0 THEN <<>> ELSE <<matchingPaths[1]>>)))

findMatchingFiles(targetPath, allFiles) ==
  With(targetPath, LAMBDA target :
    With(allFiles, LAMBDA files :
      FlatConcat([k \in 1..Len(files) |->
        IF fileMatches(files[k].path, target) THEN <<files[k].path>> ELSE <<>>])))

\* mutant: the loop over the extensions stops at the first extension that matches
probeExtensionsUntilFirstMatch(base, extensions, allFiles) ==
  With(FlatConcat([k \in 1..Len(extensions) |->
         With(findMatchingFiles(base \o extensions[k], allFiles), LAMBDA matchingFiles :
           IF Len(matchingFiles) > 0 THEN <<matchingFiles>> ELSE <<>>)]),
       LAMBDA hits : IF Len(hits) = 0 THEN <<>> ELSE hits[1])

\* the loop over the extensions: matches of base+ext for every ext, in order
probeExtensions(base, extensions, allFiles) ==
  FlatConcat([k \in 1..Len(extensions) |-> findMatchingFiles(base \o extensions[k], allFiles)])

\* mutant: the path without an added extension is looked up in every case
withFallbackAlways(base, extensions, allFiles) ==
  With(probeExtensions(base, extensions, allFiles), LAMBDA resolvedPaths :
    resolvedPaths \o findMatchingFiles(base, allFiles))

withFallback(base, extensions, allFiles) ==
  With(probeExtensions(base, extensions, allFiles), LAMBDA resolvedPaths :
    IF Len(resolvedPaths) = 0 THEN findMatchingFiles(base, allFiles) ELSE resolvedPaths)

\* mutant: the extensions are probed for an import path that starts with '/' too
resolveImportPathProbingAbsolute(importPath, currentFilePath, allFiles, projectRoot) ==
  With(getFileExtensions(importPath), LAMBDA extensions :
    IF startsWith(importPath, "/")
    THEN withFallback(join(projectRoot, importPath), extensions, allFiles)
    ELSE IF startsWith(importPath, "./") \/ startsWith(importPath, "../")
    THEN With(resolvePath(dirname(currentFilePath), importPath), LAMBDA resolvedRelativePath :
           withFallback(resolvedRelativePath, extensions, allFiles))
    ELSE withFallback(importPath, extensions, allFiles))

resolveImportPath(importPath, currentFilePath, allFiles, projectRoot) ==
  IF startsWith(importPath, "/")
  THEN findMatchingFiles(join(projectRoot, importPath), allFiles)
  ELSE With(getFileExtensions(importPath), LAMBDA extensions :
         IF startsWith(importPath, "./") \/ startsWith(importPath, "../")
         THEN With(resolvePath(dirname(currentFilePath), importPath), LAMBDA resolvedRelativePath :
                withFallback(resolvedRelativePath, extensions, allFiles))
         ELSE withFallback(importPath, extensions, allFiles))

(***************************************************************************)
(* utils/importParser.ts: the three line scanners.  A regular expression   *)
(* is applied the way RegExp.exec with the g flag applies it: the leftmost *)
(* match at or after lastIndex, then again from the end of that match.     *)
(***************************************************************************)
WhitespaceChars == {" ", "\t", "\r"}
WordChars ==
  {SubSeq(LowerChars, k, k) : k \in 1..26} \cup {SubSeq(UpperChars, k, k) : k \in 1..26}
    \cup {"0", "1", "2", "3", "4", "5", "6", "7", "8", "9", "_"}
QuoteChars == {"'", "\""}

isSpace(c) == c \in WhitespaceChars
isWord(c) == c \in WordChars
isQuote(c) == c \in QuoteChars
notBrace(c) == c # "" /\ c # "}"
notQuote(c) == c # "" /\ ~isQuote(c)
notSemicolon(c) == c # "" /\ c # ";"
cssPathChar(c) == c # "" /\ ~isQuote(c) /\ ~isSpace(c) /\ c # ")"

\* the position after the longest run of characters of class Cls that starts at i
runEnd(s, from, Cls(_)) ==
  With(from, LAMBDA i :
    CHOOSE j \in i..(Len(s) + 1) :
      /\ \A k \in i..(j - 1) : Cls(charAt(s, k))
      /\ (j = Len(s) + 1 \/ ~Cls(charAt(s, j))))

\* X+ and literal steps over a set of positions
plusFrom(s, P, Cls(_)) == UNION {(p + 1)..runEnd(s, p, Cls) : p \in P}
starFrom(s, P, Cls(_)) == UNION {p..runEnd(s, p, Cls) : p \in P}
litFrom(s, P, w) == {p + Len(w) : p \in {q \in P : startsWithAt(s, w, q)}}
charFrom(s, P, Cls(_)) == {p + 1 : p \in {q \in P : Cls(charAt(s, q))}}

\* ['"]([^'"]+)['"] from each position of P: the captured path and the end
quotedFrom(s, P) ==
  UNION {{[path |-> SubSeq(s, p, e - 1), end |-> e + 1] :
            e \in {x \in {runEnd(s, p, notQuote)} : x > p /\ isQuote(charAt(s, x))}} :
         p \in charFrom(s, P, isQuote)}

\* {[^}]*}
bracesFrom(s, P) ==
  UNION {{e + 1 : e \in {x \in {runEnd(s, p + 1, notBrace)} : charAt(s, x) = "}"}} :
         p \in {q \in P : charAt(s, q) = "{"}}

\* (?:\s*,\s*{[^}]*})*
RECURSIVE namedGroupsFrom(_, _)
namedGroupsFrom(s, positions) ==
  With(positions, LAMBDA P :
    With(bracesFrom(s, starFrom(s, litFrom(s, starFrom(s, P, isSpace), ","), isSpace)), LAMBDA step :
      IF step \subseteq P THEN P ELSE namedGroupsFrom(s, P \cup step)))

\* (?:{[^}]*}|\*\s+as\s+\w+|\w+(?:\s*,\s*{[^}]*})*|\w+)
importClauseFrom(s, positions) ==
  With(positions, LAMBDA P :
    bracesFrom(s, P)
      \cup plusFrom(s, plusFrom(s, litFrom(s, plusFrom(s, litFrom(s, P, "*"), isSpace), "as"), isSpace), isWord)
      \cup namedGroupsFrom(s, plusFrom(s, P, isWord))
      \cup plusFrom(s, P, isWord))

\* /import\s+(?:...)\s+from\s+['"]([^'"]+)['"]/ anchored at i
importRegexAt(s, i) ==
  quotedFrom(s,
    plusFrom(s, litFrom(s, plusFrom(s, importClauseFrom(s, plusFrom(s, litFrom(s, {i}, "import"), isSpace)),
                                     isSpace), "from"), isSpace))

\* /<word>\s*\(\s*['"]([^'"]+)['"]\s*\)/ anchored at i
callRegexAt(s, i, word) ==
  UNION {{[path |-> m.path, end |-> e + 1] :
            e \in {x \in {runEnd(s, m.end, isSpace)} : charAt(s, x) = ")"}} :
         m \in quotedFrom(s, starFrom(s, litFrom(s, starFrom(s, litFrom(s, {i}, word), isSpace), "("),
                                      isSpace))}

dynamicImportRegexAt(s, i) == callRegexAt(s, i, "import")
requireRegexAt(s, i) == callRegexAt(s, i, "require")

\* /import\s+(\w+(?:\s*,\s*\w+)*)/ anchored at i: group 1 and the end
RECURSIVE moduleListEnd(_, _)
moduleListEnd(s, position) ==
  With(position, LAMBDA p :
    With(runEnd(s, p, isSpace), LAMBDA c :
      IF charAt(s, c) # "," THEN p
      ELSE With(runEnd(s, c + 1, isSpace), LAMBDA w :
             IF isWord(charAt(s, w)) THEN moduleListEnd(s, runEnd(s, w, isWord)) ELSE p)))

pyImportRegexAt(s, i) ==
  UNION {{[path |-> SubSeq(s, p, e - 1), end |-> e] : e \in {moduleListEnd(s, runEnd(s, p, isWord))}} :
         p \in {r \in {runEnd(s, q, isSpace) : q \in {x \in litFrom(s, {i}, "import") : isSpace(charAt(s, x))}} :
                  isWord(charAt(s, r))}}

\* (?:\.\w+)*
RECURSIVE dottedFrom(_, _)
dottedFrom(s, positions) ==
  With(positions, LAMBDA P :
    With(plusFrom(s, litFrom(s, P, "."), isWord), LAMBDA step :
      IF step \subseteq P THEN P ELSE dottedFrom(s, P \cup step)))

\* /from\s+(\w+(?:\.\w+)*)\s+import\s+([^;]+)/ anchored at i
pyFromRegexAt(s, i) ==
  LET namesAt(e) == {q \in litFrom(s, plusFrom(s, {e}, isSpace), "import") :
                       /\ isSpace(charAt(s, q))
                       /\ \E r \in plusFrom(s, {q}, isSpace) : notSemicolon(charAt(s, r))}
      fromModule(p) ==
        UNION {{[path |-> SubSeq(s, p, e - 1), end |-> runEnd(s, k, notSemicolon)] : k \in namesAt(e)} :
                 e \in dottedFrom(s, plusFrom(s, {p}, isWord))}
  IN UNION {fromModule(p) : p \in plusFrom(s, litFrom(s, {i}, "from"), isSpace)}

\* /@import\s+(?:url\()?['"]?([^'"\s)]+)['"]?\s*\)?/ anchored at i; the optional
\* parts are tried present first, as the backtracking matcher tries them
cssImportRegexAt(s, i) ==
  LET afterUrl(p) == IF startsWithAt(s, "url(", p) THEN p + 4 ELSE p
      afterQuote(p) == IF isQuote(charAt(s, p)) THEN p + 1 ELSE p
      tries(p) == <<afterQuote(afterUrl(p)), afterUrl(p), afterQuote(p), p>>
      good(p) == {k \in 1..4 : cssPathChar(charAt(s, tries(p)[k]))}
      matchFrom(first) ==
        With(runEnd(s, first, cssPathChar), LAMBDA pathEnd :
          With(runEnd(s, afterQuote(pathEnd), isSpace), LAMBDA closeAt :
            [path |-> SubSeq(s, first, pathEnd - 1),
             end |-> IF charAt(s, closeAt) = ")" THEN closeAt + 1 ELSE closeAt]))
  IN {matchFrom(tries(p)[CHOOSE k \in good(p) : \A j \in good(p) : k <= j]) :
        p \in {r \in {runEnd(s, q, isSpace) : q \in {x \in litFrom(s, {i}, "@import") : isSpace(charAt(s, x))}} :
                 good(r) # {}}}

matchAt(regex, s, i) ==
  CASE regex = "importRegex" -> importRegexAt(s, i)
    [] regex = "dynamicImportRegex" -> dynamicImportRegexAt(s, i)
    [] regex = "requireRegex" -> requireRegexAt(s, i)
    [] regex = "pyImportRegex" -> pyImportRegexAt(s, i)
    [] regex = "pyFromRegex" -> pyFromRegexAt(s, i)
    [] regex = "cssImportRegex" -> cssImportRegexAt(s, i)

\* the leftmost match at or after from, as <<match>>, or <<>> when there is none
exec(regex, s, from) ==
  With({i \in from..Len(s) : matchAt(regex, s, i) # {}}, LAMBDA hits :
    IF hits = {} THEN <<>>
    ELSE With(matchAt(regex, s, CHOOSE h \in hits : \A j \in hits : h <= j), LAMBDA ms :
           <<CHOOSE r \in ms : \A r2 \in ms : r.end <= r2.end>>))

\* every match of one expression in one line, in order
execAll(line, start, regex) ==
  LET matches[from \in Nat] ==
        With(exec(regex, line, from), LAMBDA m :
          IF Len(m) = 0 THEN <<>> ELSE m \o matches[m[1].end])
  IN matches[start]

ImportInfo(type, matches) ==
  With(matches, LAMBDA ms : [k \in 1..Len(ms) |-> [type |-> type, path |-> ms[k].path]])

\* Python: one declaration per comma-separated module of group 1, trimmed
trim(str) ==
  LET trimmed[s \in STRING] ==
        IF s # "" /\ isSpace(SubSeq(s, 1, 1)) THEN trimmed[SubSeq(s, 2, Len(s))]
        ELSE IF s # "" /\ isSpace(SubSeq(s, Len(s), Len(s))) THEN trimmed[SubSeq(s, 1, Len(s) - 1)]
        ELSE s
  IN trimmed[str]

pyModules(matches) ==
  With(matches, LAMBDA ms :
    FlatConcat([k \in 1..Len(ms) |->
      With(split(ms[k].path, ","), LAMBDA mods :
        [j \in 1..Len(mods) |-> [type |-> "import", path |-> trim(mods[j])]])]))

parseJavaScriptLine(line) ==
  ImportInfo("import", execAll(line, 1, "importRegex"))
    \o ImportInfo("dynamic", execAll(line, 1, "dynamicImportRegex"))
    \o ImportInfo("require", execAll(line, 1, "requireRegex"))

parsePythonLine(line) ==
  pyModules(execAll(line, 1, "pyImportRegex")) \o ImportInfo("from", execAll(line, 1, "pyFromRegex"))

parseCSSLine(line) == ImportInfo("css_import", execAll(line, 1, "cssImportRegex"))

parseJavaScriptImports(content) ==
  With(split(content, "\n"), LAMBDA lines :
    FlatConcat([k \in 1..Len(lines) |-> parseJavaScriptLine(lines[k])]))

parsePythonImports(content) ==
  With(split(content, "\n"), LAMBDA lines :
    FlatConcat([k \in 1..Len(lines) |-> parsePythonLine(lines[k])]))

parseCSSImports(content) ==
  With(split(content, "\n"), LAMBDA lines :
    FlatConcat([k \in 1..Len(lines) |-> parseCSSLine(lines[k])]))

(***************************************************************************)
(* utils/importParser.ts: locality filter, dispatch and extraction.  The   *)
(* content of a file is <<text>>, or <<>> when the record carries no       *)
(* content (content.split then raises a TypeError).                        *)
(***************************************************************************)
LocalExtensionMarks == {".js", ".ts", ".jsx", ".tsx", ".py", ".css", ".scss", ".sass"}

\* mutant: the URL test is missing
isLocalImportWithoutUrlTest(importPath) ==
  IF importPath = "" THEN FALSE
  ELSE IF startsWith(importPath, "./") \/ startsWith(importPath, "../") \/ startsWith(importPath, "/")
  THEN TRUE
  ELSE IF \E e \in LocalExtensionMarks : includes(importPath, e) THEN TRUE
  ELSE IF ~includes(importPath, "/") THEN FALSE
  ELSE TRUE

isLocalImport(importPath) ==
  IF importPath = "" THEN FALSE
  ELSE IF startsWith(importPath, "http://") \/ startsWith(importPath, "https://") THEN FALSE
  ELSE IF startsWith(importPath, "./") \/ startsWith(importPath, "../") \/ startsWith(importPath, "/")
  THEN TRUE
  ELSE IF \E e \in LocalExtensionMarks : includes(importPath, e) THEN TRUE
  ELSE IF ~includes(importPath, "/") THEN FALSE
  ELSE TRUE

\* mutant: a file of any other extension is scanned as JavaScript
scannerForAnyExtension(filePath) ==
  With(lastDotSegment(filePath), LAMBDA extension :
    IF extension = "py" THEN "python"
    ELSE IF extension \in {"css", "scss", "sass"} THEN "css"
    ELSE "javascript")

scannerFor(filePath) ==
  With(lastDotSegment(filePath), LAMBDA extension :
    IF extension \in {"js", "jsx", "ts", "tsx"} THEN "javascript"
    ELSE IF extension = "py" THEN "python"
    ELSE IF extension \in {"css", "scss", "sass"} THEN "css"
    ELSE "none")

parseFileThrows(content, filePath) == scannerFor(filePath) # "none" /\ Len(content) = 0

parseFileImports(content, filePath) ==
  With(scannerFor(filePath), LAMBDA scanner :
    CASE scanner = "javascript" -> parseJavaScriptImports(content[1])
      [] scanner = "python" -> parsePythonImports(content[1])
      [] scanner = "css" -> parseCSSImports(content[1])
      [] OTHER -> <<>>)

\* the extension removal without its restriction to source extensions
stripAnyExtension(path) ==
  IF \E e \in {".js", ".ts", ".py"} : endsWith(path, e) THEN SubSeq(path, 1, Len(path) - 3)
  ELSE IF \E e \in {".jsx", ".tsx", ".css"} : endsWith(path, e) THEN SubSeq(path, 1, Len(path) - 4)
  ELSE IF \E e \in {".scss", ".sass"} : endsWith(path, e) THEN SubSeq(path, 1, Len(path) - 5)
  ELSE path

\* mutant: the path is returned as written
keepWrittenExtension(path) == path

stripSourceExtension(path) ==
  IF endsWith(path, ".js") \/ endsWith(path, ".ts") \/ endsWith(path, ".py")
  THEN SubSeq(path, 1, Len(path) - 3)
  ELSE IF endsWith(path, ".jsx") \/ endsWith(path, ".tsx")
  THEN SubSeq(path, 1, Len(path) - 4)
  ELSE path

filterLocal(importPaths) ==
  With(importPaths, LAMBDA paths :
    FlatConcat([k \in 1..Len(paths) |-> IF isLocalImport(paths[k]) THEN <<paths[k]>> ELSE <<>>]))

extractLocalImportPaths(content, filePath) ==
  With(parseFileImports(content, filePath), LAMBDA imports :
    With(filterLocal([k \in 1..Len(imports) |-> imports[k].path]), LAMBDA local :
      [k \in 1..Len(local) |-> stripSourceExtension(local[k])]))

(***************************************************************************)
(* utils/pathResolver.ts: getDependencyFiles.  dependencyFiles is the Map  *)
(* in insertion order (keyed by the record's path); processedFiles is the  *)
(* Set of raw paths.                                                       *)
(***************************************************************************)
\* mutant: the selection is compared by raw path
isSelectedFileByRawPath(selected, path) == \E k \in 1..Len(selected) : selected[k].path = path

isSelectedFile(selected, path) == \E k \in 1..Len(selected) : arePathsEquivalent(selected[k].path, path)

\* mutant: a record flagged binary, skipped or excluded is not an eligible target
findFileNotFlagged(all, resolvedPath) ==
  With({k \in 1..Len(all) : /\ arePathsEquivalent(all[k].path, resolvedPath)
                             /\ ~all[k].isBinary /\ ~all[k].isSkipped
                             /\ ~all[k].excludedByDefault},
       LAMBDA hits : IF hits = {} THEN <<>> ELSE <<all[CHOOSE k \in hits : \A j \in hits : k <= j]>>)

\* allFiles.find(f => arePathsEquivalent(f.path, resolvedPath)): <<record>> or <<>>
findFile(all, resolvedPath) ==
  With({k \in 1..Len(all) : arePathsEquivalent(all[k].path, resolvedPath)}, LAMBDA hits :
    IF hits = {} THEN <<>> ELSE <<all[CHOOSE k \in hits : \A j \in hits : k <= j]>>)

\* mutant: every set adds an entry
mapSetAppending(map, file) == Append(map, file)

\* Map.set(file.path, file)
mapSet(map, file) ==
  IF \E k \in 1..Len(map) : map[k].path = file.path
  THEN [k \in 1..Len(map) |-> IF map[k].path = file.path THEN file ELSE map[k]]
  ELSE Append(map, file)

Paths(files) == {files[k].path : k \in 1..Len(files)}
NormalizedPaths(files) == {toLowerCase(normalizePath(files[k].path)) : k \in 1..Len(files)}

(***************************************************************************)
(* getDependencyFiles as a function of its arguments: the same traversal,  *)
(* written as the recursion of processFile.  walk is the pair of the Map   *)
(* and the Set.                                                            *)
(***************************************************************************)
RECURSIVE processFile(_, _, _, _, _)

\* for (const resolvedPath of resolvedPaths), from the k-th on
RECURSIVE processResolvedPaths(_, _, _, _, _, _)
processResolvedPaths(resolvedPaths, k, walkSoFar, selected, all, root) ==
  IF k > Len(resolvedPaths) THEN walkSoFar
  ELSE With(walkSoFar, LAMBDA walk :
         With(findFile(all, resolvedPaths[k]), LAMBDA found :
           IF Len(found) = 1 /\ ~isSelectedFile(selected, found[1].path)
           THEN processResolvedPaths(resolvedPaths, k + 1,
                  processFile(found[1], [walk EXCEPT !.dependencyFiles = mapSet(@, found[1])],
                              selected, all, root),
                  selected, all, root)
           ELSE processResolvedPaths(resolvedPaths, k + 1, walk, selected, all, root)))

\* for (const importPath of importPaths), from the k-th on
RECURSIVE processImportPaths(_, _, _, _, _, _, _)
processImportPaths(file, importPaths, k, walkSoFar, selected, all, root) ==
  IF k > Len(importPaths) THEN walkSoFar
  ELSE With(walkSoFar, LAMBDA walk :
         With(resolveImportPath(importPaths[k], file.path, all, root), LAMBDA resolvedPaths :
           processImportPaths(file, importPaths, k + 1,
             processResolvedPaths(resolvedPaths, 1, walk, selected, all, root),
             selected, all, root)))

processFile(file, walkSoFar, selected, all, root) ==
  With(walkSoFar, LAMBDA walk :
    IF file.path \in walk.processedFiles THEN walk
    ELSE With([walk EXCEPT !.processedFiles = @ \cup {file.path}], LAMBDA entered :
           IF parseFileThrows(file.content, file.path) THEN entered
           ELSE With(extractLocalImportPaths(file.content, file.path), LAMBDA importPaths :
                  processImportPaths(file, importPaths, 1, entered, selected, all, root))))

RECURSIVE processSelected(_, _, _, _, _)
processSelected(k, walkSoFar, selected, all, root) ==
  IF k > Len(selected) THEN walkSoFar
  ELSE With(walkSoFar, LAMBDA walk :
         processSelected(k + 1, processFile(selected[k], walk, selected, all, root), selected, all, root))

getDependencyFiles(selectedFileData, allFileData, root) ==
  With(selectedFileData, LAMBDA selected :
    With(allFileData, LAMBDA all :
      processSelected(1, [dependencyFiles |-> <<>>, processedFiles |-> {}], selected, all, root).dependencyFiles))

VARIABLES
  selectedFiles,    \* argument: the records of the initial selection
  allFiles,         \* argument: the candidate file set
  projectRoot,      \* argument
  dependencyFiles,  \* the Map of discovered records, in insertion order
  processedFiles,   \* the Set of paths already entered
  stack,            \* the activations of processFile, innermost last
  nextSelected,     \* position of selectedFiles.forEach
  pc,               \* "idle", "running" or "done"
  result,           \* the value returned by the last call
  warnings,         \* paths reported with console.warn by the catch block
  scanned,          \* paths handed to extractLocalImportPaths, in order
  hasPrevious,      \* TRUE when an earlier call has returned
  previousResult,   \* the value returned by the call before the last one
  resolveArgs,      \* resolveImportPath: [importPath, currentFilePath, allFiles, projectRoot]
  resolveResult,    \* resolveImportPath: the array returned
  resolvePc,        \* "ready" or "returned"
  extractArgs,      \* extractLocalImportPaths: [content, filePath]
  extractSource,    \* the statements content was written from, as [style, path]
  extractImports,   \* extractLocalImportPaths: imports, the declarations parseFileImports returned
  extractResult,    \* extractLocalImportPaths: the array returned
  extractPc,        \* "ready" or "returned"
  appAllFiles,              \* App: allFiles, the records of the loaded folder
  selectedFolder,           \* App: selectedFolder
  appSelectedFiles,         \* App: selectedFiles, an array of paths
  autoIncludeDependencies,  \* App: the "Detect Dependencies" switch
  detectedDependencies,     \* App: paths offered by the modal
  selectedDependencies,     \* App: paths ticked in the modal
  isDependencyModalOpen,    \* App
  isDetectingDependencies,  \* App
  currentSelected,          \* DependencySelectionModal: currentSelected
  detectTimer               \* the pending setTimeout of the detection effect, with the
                            \* selectedFiles and detectedDependencies its callback closes over

walkerVars == <<selectedFiles, allFiles, projectRoot, dependencyFiles, processedFiles, stack,
                nextSelected, pc, result, warnings, scanned, hasPrevious, previousResult>>
resolveVars == <<resolveArgs, resolveResult, resolvePc>>
extractVars == <<extractArgs, extractSource, extractImports, extractResult, extractPc>>
appVars == <<appAllFiles, selectedFolder, appSelectedFiles, autoIncludeDependencies,
             detectedDependencies, selectedDependencies, isDependencyModalOpen,
             isDetectingDependencies, currentSelected, detectTimer>>
vars == <<walkerVars, resolveVars, extractVars, appVars>>

walkerUnused ==
  /\ selectedFiles = <<>> /\ allFiles = <<>> /\ projectRoot = ""
  /\ dependencyFiles = <<>> /\ processedFiles = {} /\ stack = <<>> /\ nextSelected = 1
  /\ pc = "idle" /\ result = <<>> /\ warnings = <<>> /\ scanned = <<>>
  /\ hasPrevious = FALSE /\ previousResult = <<>>

resolveUnused ==
  /\ resolveArgs = [importPath |-> "", currentFilePath |-> "", allFiles |-> <<>>, projectRoot |-> ""]
  /\ resolveResult = <<>>
  /\ resolvePc = "ready"

extractUnused ==
  /\ extractArgs = [content |-> "", filePath |-> ""]
  /\ extractSource = <<>>
  /\ extractImports = <<>>
  /\ extractResult = <<>>
  /\ extractPc = "ready"

appUnused ==
  /\ appAllFiles = <<>> /\ selectedFolder = "" /\ appSelectedFiles = <<>>
  /\ autoIncludeDependencies = FALSE /\ detectedDependencies = <<>>
  /\ selectedDependencies = <<>> /\ isDependencyModalOpen = FALSE
  /\ isDetectingDependencies = FALSE /\ currentSelected = <<>> /\ detectTimer = <<>>

\* mutant: processFile without the visited check
enterProcessFileAgain(file, processed, stk, warn, scan) ==
  IF parseFileThrows(file.content, file.path)
  THEN [processed |-> processed \cup {file.path}, stack |-> stk,
        warnings |-> Append(warn, file.path), scanned |-> Append(scan, file.path)]
  ELSE [processed |-> processed \cup {file.path},
        stack |-> Append(stk, [file |-> file,
                               importPaths |-> extractLocalImportPaths(file.content, file.path),
                               i |-> 0, resolvedPaths |-> <<>>, j |-> 1]),
        warnings |-> warn, scanned |-> Append(scan, file.path)]

\* mutant: the error is caught around the whole walk of a selected file, not per file
enterProcessFileCaughtOutside(file, processed, stk, warn, scan) ==
  IF file.path \in processed
  THEN [processed |-> processed, stack |-> stk, warnings |-> warn, scanned |-> scan]
  ELSE IF parseFileThrows(file.content, file.path)
  THEN [processed |-> processed \cup {file.path}, stack |-> <<>>,
        warnings |-> Append(warn, file.path), scanned |-> Append(scan, file.path)]
  ELSE [processed |-> processed \cup {file.path},
        stack |-> Append(stk, [file |-> file,
                               importPaths |-> extractLocalImportPaths(file.content, file.path),
                               i |-> 0, resolvedPaths |-> <<>>, j |-> 1]),
        warnings |-> warn, scanned |-> Append(scan, file.path)]

\* mutant: the visited check is made but the path is never added to the Set
enterProcessFileUnmarked(file, processed, stk, warn, scan) ==
  IF file.path \in processed
  THEN [processed |-> processed, stack |-> stk, warnings |-> warn, scanned |-> scan]
  ELSE IF parseFileThrows(file.content, file.path)
  THEN [processed |-> processed, stack |-> stk,
        warnings |-> Append(warn, file.path), scanned |-> Append(scan, file.path)]
  ELSE [processed |-> processed,
        stack |-> Append(stk, [file |-> file,
                               importPaths |-> extractLocalImportPaths(file.content, file.path),
                               i |-> 0, resolvedPaths |-> <<>>, j |-> 1]),
        warnings |-> warn, scanned |-> Append(scan, file.path)]

\* the state left by the entry of processFile(file): the visited check, the
\* extraction inside try, and the catch block
enterProcessFile(file, processed, stk, warn, scan) ==
  IF file.path \in processed
  THEN [processed |-> processed, stack |-> stk, warnings |-> warn, scanned |-> scan]
  ELSE IF parseFileThrows(file.content, file.path)
  THEN [processed |-> processed \cup {file.path}, stack |-> stk,
        warnings |-> Append(warn, file.path), scanned |-> Append(scan, file.path)]
  ELSE [processed |-> processed \cup {file.path},
        stack |-> Append(stk, [file |-> file,
                               importPaths |-> extractLocalImportPaths(file.content, file.path),
                               i |-> 0, resolvedPaths |-> <<>>, j |-> 1]),
        warnings |-> warn, scanned |-> Append(scan, file.path)]

\* mutant: the Set of processed paths outlives the call
CallKeepingProcessedFiles ==
  /\ pc \in {"idle", "done"}
  /\ dependencyFiles' = <<>>
  /\ stack' = <<>>
  /\ nextSelected' = 1
  /\ warnings' = <<>>
  /\ scanned' = <<>>
  /\ pc' = "running"
  /\ hasPrevious' = (pc = "done")
  /\ previousResult' = result
  /\ UNCHANGED <<selectedFiles, allFiles, projectRoot, result, processedFiles>>
  /\ UNCHANGED <<resolveVars, extractVars, appVars>>

\* mutant: the Map of discovered records outlives the call
CallKeepingDependencyFiles ==
  /\ pc \in {"idle", "done"}
  /\ processedFiles' = {}
  /\ stack' = <<>>
  /\ nextSelected' = 1
  /\ warnings' = <<>>
  /\ scanned' = <<>>
  /\ pc' = "running"
  /\ hasPrevious' = (pc = "done")
  /\ previousResult' = result
  /\ UNCHANGED <<selectedFiles, allFiles, projectRoot, result, dependencyFiles>>
  /\ UNCHANGED <<resolveVars, extractVars, appVars>>

\* getDependencyFiles is called: fresh Map and Set
Call ==
  /\ pc \in {"idle", "done"}
  /\ dependencyFiles' = <<>>
  /\ processedFiles' = {}
  /\ stack' = <<>>
  /\ nextSelected' = 1
  /\ warnings' = <<>>
  /\ scanned' = <<>>
  /\ pc' = "running"
  /\ hasPrevious' = (pc = "done")
  /\ previousResult' = result
  /\ UNCHANGED <<selectedFiles, allFiles, projectRoot, result>>
  /\ UNCHANGED <<resolveVars, extractVars, appVars>>

\* selectedFiles.forEach(processFile): one element
ForEachSelected ==
  /\ pc = "running"
  /\ stack = <<>>
  /\ nextSelected <= Len(selectedFiles)
  /\ \E e \in {enterProcessFile(selectedFiles[nextSelected], processedFiles, stack, warnings, scanned)} :
       /\ processedFiles' = e.processed
       /\ stack' = e.stack
       /\ warnings' = e.warnings
       /\ scanned' = e.scanned
  /\ nextSelected' = nextSelected + 1
  /\ UNCHANGED <<selectedFiles, allFiles, projectRoot, dependencyFiles, pc, result, hasPrevious,
                 previousResult>>
  /\ UNCHANGED <<resolveVars, extractVars, appVars>>

\* for (const importPath of importPaths): the next import path is resolved
NextImport ==
  /\ pc = "running"
  /\ stack # <<>>
  /\ LET top == stack[Len(stack)]
     IN /\ top.j > Len(top.resolvedPaths)
        /\ top.i < Len(top.importPaths)
        /\ stack' = [stack EXCEPT ![Len(stack)] =
                       [top EXCEPT !.i = top.i + 1,
                                   !.resolvedPaths = resolveImportPath(top.importPaths[top.i + 1],
                                                       top.file.path, allFiles, projectRoot),
                                   !.j = 1]]
  /\ UNCHANGED <<selectedFiles, allFiles, projectRoot, dependencyFiles, processedFiles,
                 nextSelected, pc, result, warnings, scanned, hasPrevious, previousResult>>
  /\ UNCHANGED <<resolveVars, extractVars, appVars>>

\* mutant: a discovered file is recorded but not processed in turn
VisitResolvedWithoutRecursion ==
  /\ pc = "running"
  /\ stack # <<>>
  /\ LET top == stack[Len(stack)]
     IN /\ top.j <= Len(top.resolvedPaths)
        /\ \E found \in {findFile(allFiles, top.resolvedPaths[top.j])} :
             /\ stack' = [stack EXCEPT ![Len(stack)] = [top EXCEPT !.j = top.j + 1]]
             /\ dependencyFiles' =
                  IF Len(found) = 1 /\ ~isSelectedFile(selectedFiles, found[1].path)
                  THEN mapSet(dependencyFiles, found[1]) ELSE dependencyFiles
  /\ UNCHANGED <<selectedFiles, allFiles, projectRoot, nextSelected, pc, result, hasPrevious,
                 previousResult, processedFiles, warnings, scanned>>
  /\ UNCHANGED <<resolveVars, extractVars, appVars>>

\* mutant: a resolved file that is selected is marked as processed without being
\* scanned
VisitResolvedMarkingSelected ==
  /\ pc = "running"
  /\ stack # <<>>
  /\ LET top == stack[Len(stack)]
     IN /\ top.j <= Len(top.resolvedPaths)
        /\ \E found \in {findFile(allFiles, top.resolvedPaths[top.j])},
              advanced \in {[stack EXCEPT ![Len(stack)] = [top EXCEPT !.j = top.j + 1]]} :
             IF Len(found) = 1 /\ ~isSelectedFile(selectedFiles, found[1].path)
             THEN \E e \in {enterProcessFile(found[1], processedFiles, advanced, warnings, scanned)} :
                    /\ dependencyFiles' = mapSet(dependencyFiles, found[1])
                    /\ processedFiles' = e.processed
                    /\ stack' = e.stack
                    /\ warnings' = e.warnings
                    /\ scanned' = e.scanned
             ELSE /\ stack' = advanced
                  /\ processedFiles' = IF Len(found) = 1 THEN processedFiles \cup {found[1].path}
                                       ELSE processedFiles
                  /\ UNCHANGED <<dependencyFiles, warnings, scanned>>
  /\ UNCHANGED <<selectedFiles, allFiles, projectRoot, nextSelected, pc, result, hasPrevious, previousResult>>
  /\ UNCHANGED <<resolveVars, extractVars, appVars>>

\* for (const resolvedPath of resolvedPaths): one resolved path: the lookup, the
\* selection test, Map.set and the recursive call
VisitResolved ==
  /\ pc = "running"
  /\ stack # <<>>
  /\ LET top == stack[Len(stack)]
     IN /\ top.j <= Len(top.resolvedPaths)
        /\ \E found \in {findFile(allFiles, top.resolvedPaths[top.j])},
              advanced \in {[stack EXCEPT ![Len(stack)] = [top EXCEPT !.j = top.j + 1]]} :
             IF Len(found) = 1 /\ ~isSelectedFile(selectedFiles, found[1].path)
             THEN \E e \in {enterProcessFile(found[1], processedFiles, advanced, warnings, scanned)} :
                    /\ dependencyFiles' = mapSet(dependencyFiles, found[1])
                    /\ processedFiles' = e.processed
                    /\ stack' = e.stack
                    /\ warnings' = e.warnings
                    /\ scanned' = e.scanned
             ELSE /\ stack' = advanced
                  /\ UNCHANGED <<dependencyFiles, processedFiles, warnings, scanned>>
  /\ UNCHANGED <<selectedFiles, allFiles, projectRoot, nextSelected, pc, result, hasPrevious, previousResult>>
  /\ UNCHANGED <<resolveVars, extractVars, appVars>>

\* processFile returns to its caller
ReturnProcessFile ==
  /\ pc = "running"
  /\ stack # <<>>
  /\ LET top == stack[Len(stack)]
     IN /\ top.j > Len(top.resolvedPaths)
        /\ top.i >= Len(top.importPaths)
  /\ stack' = SubSeq(stack, 1, Len(stack) - 1)
  /\ UNCHANGED <<selectedFiles, allFiles, projectRoot, dependencyFiles, processedFiles,
                 nextSelected, pc, result, warnings, scanned, hasPrevious, previousResult>>
  /\ UNCHANGED <<resolveVars, extractVars, appVars>>

\* return Array.from(dependencyFiles.values())
ReturnDependencies ==
  /\ pc = "running"
  /\ stack = <<>>
  /\ nextSelected > Len(selectedFiles)
  /\ result' = dependencyFiles
  /\ pc' = "done"
  /\ UNCHANGED <<selectedFiles, allFiles, projectRoot, dependencyFiles, processedFiles, stack,
                 nextSelected, warnings, scanned, hasPrevious, previousResult>>
  /\ UNCHANGED <<resolveVars, extractVars, appVars>>

(***************************************************************************)
(* Inputs of the walker: a project /p of four files.  A.ts, b.ts and c.ts  *)
(* hold at most MaxImports import statements between them, each naming a   *)
(* path of ImportUniverse; b.js has either plain content or none.  The     *)
(* selection is a non-empty set of the three .ts records, or one record    *)
(* whose path is written in another case and separator style.              *)
(***************************************************************************)
ImportUniverse == <<"./A", "./b", "./c">>
ImportingFiles == {1, 2, 4}

\* the members of S among 1..n, in increasing order
orderedSeq(n, S) == FlatConcat([k \in 1..n |-> IF k \in S THEN <<k>> ELSE <<>>])

importStatement(importPath) == "import m from '" \o importPath \o "';"

contentOf(paths) ==
  With(paths, LAMBDA importPaths :
    IF Len(importPaths) = 0 THEN <<"export const value = 42;">>
    ELSE <<joinWith([k \in 1..Len(importPaths) |-> importStatement(importPaths[k])], "\n")>>)

\* the content of file f when the project's import statements are E
generatedContent(f, E) ==
  With(orderedSeq(Len(ImportUniverse), {i \in 1..Len(ImportUniverse) : <<f, i>> \in E}), LAMBDA mine :
    contentOf([k \in 1..Len(mine) |-> ImportUniverse[mine[k]]]))

ImportPlacements ==
  {E \in SUBSET (ImportingFiles \X (1..Len(ImportUniverse))) : Cardinality(E) <= MaxImports}

FileData(path, content) == [path |-> path, content |-> content]

toBackslashes(str) ==
  LET restyle[s \in STRING] ==
        With(indexOfFrom(s, "/", 1), LAMBDA k :
          IF k = 0 THEN s
          ELSE SubSeq(s, 1, k - 1) \o "\\" \o restyle[SubSeq(s, k + 1, Len(s))])
  IN restyle[str]

restyled(file) == [file EXCEPT !.path = toBackslashes(toLowerCase(file.path))]

Selections(all) ==
  {With(orderedSeq(Len(all), S), LAMBDA chosen : [k \in 1..Len(chosen) |-> all[chosen[k]]]) :
     S \in (SUBSET ImportingFiles) \ {{}}}
    \cup {<<restyled(all[f])>> : f \in ImportingFiles}

WalkerInit ==
  /\ \E E \in ImportPlacements, cj \in {<<>>, <<"module.exports = 1;">>} :
       allFiles = <<FileData("/p/A.ts", generatedContent(1, E)),
                    FileData("/p/b.ts", generatedContent(2, E)),
                    FileData("/p/b.js", cj),
                    FileData("/p/c.ts", generatedContent(4, E))>>
  /\ selectedFiles \in Selections(allFiles)
  /\ projectRoot = "/p"
  /\ dependencyFiles = <<>>
  /\ processedFiles = {}
  /\ stack = <<>>
  /\ nextSelected = 1
  /\ pc = "idle"
  /\ result = <<>>
  /\ warnings = <<>>
  /\ scanned = <<>>
  /\ hasPrevious = FALSE
  /\ previousResult = <<>>

WalkerNext ==
  \/ Call
  \/ ForEachSelected
  \/ NextImport
  \/ VisitResolved
  \/ ReturnProcessFile
  \/ ReturnDependencies

Init == WalkerInit /\ resolveUnused /\ extractUnused /\ appUnused
Next == WalkerNext
Spec == Init /\ [][Next]_vars

\* the stepwise traversal returns what the recursion of processFile returns
WalkAgreesWithRecursion ==
  pc = "done" => result = getDependencyFiles(selectedFiles, allFiles, projectRoot)

(***************************************************************************)
(* The import graph of the arguments, as the claims speak of it.           *)
(***************************************************************************)
samePath(p, q) == toLowerCase(replaceBackslashes(p)) = toLowerCase(replaceBackslashes(q))

\* X -> Y: resolveImportPath of some local import of X returns Y's path
ImportTargets(file) ==
  IF parseFileThrows(file.content, file.path) THEN {}
  ELSE LET importPaths == extractLocalImportPaths(file.content, file.path)
       IN UNION {SeqToSet(resolveImportPath(importPaths[k], file.path, allFiles, projectRoot)) :
                   k \in 1..Len(importPaths)}

ImportsOfPath(p) == UNION {ImportTargets(allFiles[k]) : k \in {n \in 1..Len(allFiles) : allFiles[n].path = p}}

RECURSIVE ImportClosure(_)
ImportClosure(T) ==
  LET more == T \cup UNION {ImportsOfPath(p) : p \in T}
  IN IF more = T THEN T ELSE ImportClosure(more)

ReachableFromSelection ==
  ImportClosure(UNION {ImportTargets(selectedFiles[k]) : k \in 1..Len(selectedFiles)})

InSelection(p) == \E k \in 1..Len(selectedFiles) : samePath(selectedFiles[k].path, p)

\* C1: no returned record has a path equal, ignoring case and separator style,
\* to the path of a selected file
C1_NoSelectedFileReturned ==
  pc = "done" => \A k \in 1..Len(result) : ~InSelection(result[k].path)

\* a selected file is the import target of two other processed files, and the
\* call returned some other file
C1_Witness ==
  /\ pc = "done"
  /\ Len(result) > 0
  /\ \E s \in 1..Len(selectedFiles), m \in 1..Len(selectedFiles), n \in 1..Len(selectedFiles) :
       /\ s # m /\ s # n /\ m # n
       /\ \E p \in ImportTargets(selectedFiles[m]) : samePath(p, selectedFiles[s].path)
       /\ \E p \in ImportTargets(selectedFiles[n]) : samePath(p, selectedFiles[s].path)

\* C3: without a per-file error the result is exactly the set of files reachable
\* from the selection by import edges, minus the selected files
C3_ExactlyTheReachableFiles ==
  (pc = "done" /\ warnings = <<>>) =>
     Paths(result) = {p \in ReachableFromSelection : ~InSelection(p)}

\* two files are returned, and a file that imports a selected file is not
C3_Witness ==
  /\ pc = "done"
  /\ warnings = <<>>
  /\ Len(result) = 2
  /\ \E k \in 1..Len(allFiles) :
       /\ allFiles[k].path \notin Paths(result)
       /\ ~InSelection(allFiles[k].path)
       /\ \E p \in ImportTargets(allFiles[k]) : InSelection(p)

\* C7: when extraction raised for some file the call still returns, and every
\* file reachable without the imports of the raising files is returned
C7_PartialResultsAfterError ==
  (pc = "done" /\ warnings # <<>>) =>
     {p \in ReachableFromSelection : ~InSelection(p)} \subseteq Paths(result)

\* a file raised and another dependency was still returned
C7_Witness ==
  /\ pc = "done"
  /\ warnings # <<>>
  /\ \E k \in 1..Len(result) : result[k].path \notin SeqToSet(warnings)

\* C10: a second call with the same arguments returns the same set of
\* normalized paths
C10_SecondCallReturnsTheSame ==
  (pc = "done" /\ hasPrevious) => NormalizedPaths(result) = NormalizedPaths(previousResult)

C10_Witness == pc = "done" /\ hasPrevious /\ Len(result) > 0

\* the work a call has left: the paths not yet entered, then the selected records
\* not yet passed to processFile and the iterations left in every activation
RECURSIVE SumOver(_, _)
SumOver(q, k) == IF k = 0 THEN 0 ELSE q[k] + SumOver(q, k - 1)

MostResolved == Len(FILE_EXTENSIONS_default) * Len(allFiles)
contentLength(file) == IF Len(file.content) = 0 THEN 0 ELSE Len(file.content[1])
MostImports ==
  LET sizes == {contentLength(allFiles[k]) : k \in 1..Len(allFiles)}
                 \cup {contentLength(selectedFiles[k]) : k \in 1..Len(selectedFiles)}
  IN 3 * (CHOOSE n \in sizes : \A m \in sizes : m <= n)
FrameWork(frame) ==
  (Len(frame.importPaths) - frame.i) * (MostResolved + 1)
    + (Len(frame.resolvedPaths) + 1 - frame.j) + 1
PendingWork ==
  SumOver([k \in 1..Len(stack) |-> FrameWork(stack[k])], Len(stack))
    + (Len(selectedFiles) + 1 - nextSelected)
NotEntered == Cardinality((Paths(allFiles) \cup Paths(selectedFiles)) \ processedFiles)
Measure == NotEntered * (MostImports * (MostResolved + 1) + 2) + PendingWork

\* C2: every step of a running call strictly decreases Measure, a natural number
\* fixed by the arguments, so the call returns after at most that many steps,
\* whatever cycles the import graph has
C2_EveryStepDecreasesTheMeasure ==
  [][(pc = "running" /\ pc' = "running") => (Measure' < Measure /\ Measure' >= 0)]_vars

\* a call returned {b} for the selection {A} where A imports b and b imports A
C2_Witness ==
  /\ pc = "done"
  /\ Len(selectedFiles) = 1
  /\ Len(result) = 1
  /\ result[1].path \in ImportTargets(selectedFiles[1])
  /\ \E p \in ImportTargets(result[1]) : samePath(p, selectedFiles[1].path)

\* C12: during one call no path is handed to the extraction twice, and no two
\* activations of processFile are for the same path: a visit of a path already
\* in processedFiles returns at once
C12_EachFileScannedAtMostOnce ==
  /\ \A i \in 1..Len(scanned), j \in 1..Len(scanned) : i # j => scanned[i] # scanned[j]
  /\ \A i \in 1..Len(stack), j \in 1..Len(stack) : i # j => stack[i].file.path # stack[j].file.path

\* a scanned file is the import target of two other scanned files
C12_Witness ==
  /\ pc = "done"
  /\ \E i \in 1..Len(scanned), j \in 1..Len(scanned), t \in 1..Len(scanned) :
       /\ i < j /\ t # i /\ t # j
       /\ scanned[t] \in ImportsOfPath(scanned[i])
       /\ scanned[t] \in ImportsOfPath(scanned[j])

\* the positions in scanned of the files that import the selected record s
ScannedImportersOf(s) ==
  {m \in 1..Len(scanned) :
     /\ scanned[m] # selectedFiles[s].path
     /\ \E p \in ImportsOfPath(scanned[m]) : samePath(p, selectedFiles[s].path)}

\* C13: a selected file that another scanned file imports is scanned itself, and
\* every file it imports that is not selected is returned
C13_SelectedImportedFileIsStillScanned ==
  pc = "done" =>
    \A s \in 1..Len(selectedFiles) :
       ScannedImportersOf(s) # {} =>
          /\ selectedFiles[s].path \in SeqToSet(scanned)
          /\ \A t \in ImportTargets(selectedFiles[s]) : ~InSelection(t) => t \in Paths(result)

\* a selected file was reached by an import before its own turn in the forEach,
\* and a file it imports was returned
C13_Witness ==
  /\ pc = "done"
  /\ \E s \in 1..Len(selectedFiles), m \in 1..Len(scanned), n \in 1..Len(scanned) :
       /\ m \in ScannedImportersOf(s)
       /\ scanned[n] = selectedFiles[s].path
       /\ m < n
       /\ \E t \in ImportTargets(selectedFiles[s]) : ~InSelection(t) /\ t \in Paths(result)

\* C17: no step changes selectedFiles or allFiles, a call starts with an empty
\* Map and an empty Set, and the value a call returns is the function
\* getDependencyFiles of its arguments, whatever calls came before
C17_CallsAreIndependent ==
  [][/\ selectedFiles' = selectedFiles
     /\ allFiles' = allFiles
     /\ (pc # "running" /\ pc' = "running") => (dependencyFiles' = <<>> /\ processedFiles' = {})
     /\ (pc = "running" /\ pc' = "done")
          => result' = getDependencyFiles(selectedFiles, allFiles, projectRoot)]_vars

\* a second call has just started after a call that returned dependencies
C17_Witness ==
  /\ pc = "running"
  /\ hasPrevious
  /\ Len(previousResult) > 0
  /\ nextSelected = 1
  /\ dependencyFiles = <<>>
  /\ processedFiles = {}

\* C27: detection reaches a fixpoint: with the result R of the call added to the
\* selection and no content changed, getDependencyFiles returns nothing
C27_ResultAddedToSelectionIsAFixpoint ==
  pc = "done" => getDependencyFiles(selectedFiles \o result, allFiles, projectRoot) = <<>>

\* a returned file has imports of its own, and a file they lead to was returned
C27_Witness ==
  /\ pc = "done"
  /\ \E k \in 1..Len(result) :
       \E t \in ImportTargets(result[k]) : t \in Paths(result) /\ ~samePath(t, result[k].path)

\* C28: every record returned is one of allFiles, and no two records returned
\* have paths equal ignoring case and separator style, however many imports
\* resolve to the same file
C28_ResultHoldsDistinctRecordsOfAllFiles ==
  pc = "done" =>
    /\ \A k \in 1..Len(result) : result[k] \in SeqToSet(allFiles)
    /\ \A j, k \in 1..Len(result) : samePath(result[j].path, result[k].path) => j = k

\* two scanned files import the same returned file
C28_Witness ==
  /\ pc = "done"
  /\ \E k \in 1..Len(result), m, n \in 1..Len(scanned) :
       /\ m # n
       /\ result[k].path \in ImportsOfPath(scanned[m])
       /\ result[k].path \in ImportsOfPath(scanned[n])

(***************************************************************************)
(* The walker over a project whose selected file imports './x' with or     *)
(* without a written extension, beside any of x.ts, x.js, x.py and x.css.  *)
(***************************************************************************)
WrittenExtensions == {"", ".ts", ".js", ".jsx", ".tsx", ".py", ".css"}

SiblingNames == <<"x.ts", "x.js", "x.py", "x.css">>

WrittenProjects ==
  {<<FileData(importer, contentOf(<<"./x" \o e>>))>>
     \o SelectFrom([k \in 1..Len(SiblingNames) |-> FileData("/p/" \o SiblingNames[k], contentOf(<<>>))],
                    {FileData("/p/" \o n, contentOf(<<>>)) : n \in present}) :
     importer \in {"/p/A.ts", "/p/A.jsx"}, e \in WrittenExtensions,
     present \in SUBSET SeqToSet(SiblingNames)}

WrittenInit ==
  /\ allFiles \in WrittenProjects
  /\ selectedFiles = <<allFiles[1]>>
  /\ projectRoot = "/p"
  /\ dependencyFiles = <<>>
  /\ processedFiles = {}
  /\ stack = <<>>
  /\ nextSelected = 1
  /\ pc = "idle"
  /\ result = <<>>
  /\ warnings = <<>>
  /\ scanned = <<>>
  /\ hasPrevious = FALSE
  /\ previousResult = <<>>
  /\ resolveUnused
  /\ extractUnused
  /\ appUnused

SpecWritten == WrittenInit /\ [][WalkerNext]_vars

\* the records with every import of './x' plus .js, .ts, .jsx, .tsx or .py
\* rewritten to './x'
WithoutWrittenExtension(files) ==
  [k \in 1..Len(files) |->
     IF \E e \in {".js", ".ts", ".jsx", ".tsx", ".py"} : files[k].content = contentOf(<<"./x" \o e>>)
     THEN [files[k] EXCEPT !.content = contentOf(<<"./x">>)]
     ELSE files[k]]

\* C26: a .js, .ts, .jsx, .tsx or .py written in a relative import does not
\* narrow the result: the call returns the files it returns when the import is
\* written './x', so './x.ts' returns x.js too when x.ts and x.js both exist
C26_WrittenExtensionDoesNotNarrow ==
  pc = "done" =>
    /\ Paths(result) = Paths(getDependencyFiles(WithoutWrittenExtension(selectedFiles),
                                                 WithoutWrittenExtension(allFiles), projectRoot))
    /\ (/\ selectedFiles[1].content = contentOf(<<"./x.ts">>)
        /\ {"/p/x.ts", "/p/x.js"} \subseteq Paths(allFiles))
         => {"/p/x.ts", "/p/x.js"} \subseteq Paths(result)

\* './x.ts' was imported beside x.ts and x.js, and x.js was returned
C26_Witness ==
  /\ pc = "done"
  /\ selectedFiles[1].content = contentOf(<<"./x.ts">>)
  /\ {"/p/x.ts", "/p/x.js"} \subseteq Paths(allFiles)
  /\ "/p/x.js" \in Paths(result)

(***************************************************************************)
(* The walker over a project whose records carry the isBinary, isSkipped   *)
(* and excludedByDefault flags and that holds a file of an extension no    *)
(* scanner knows (m.mjs or data.json), with or without content.            *)
(***************************************************************************)
FileFlags ==
  {[isBinary |-> FALSE, isSkipped |-> FALSE, excludedByDefault |-> FALSE],
   [isBinary |-> TRUE, isSkipped |-> FALSE, excludedByDefault |-> FALSE],
   [isBinary |-> FALSE, isSkipped |-> TRUE, excludedByDefault |-> FALSE],
   [isBinary |-> FALSE, isSkipped |-> FALSE, excludedByDefault |-> TRUE]}

NoFlags == [isBinary |-> FALSE, isSkipped |-> FALSE, excludedByDefault |-> FALSE]

FlaggedFileData(path, content, flags) ==
  [path |-> path, content |-> content, isBinary |-> flags.isBinary,
   isSkipped |-> flags.isSkipped, excludedByDefault |-> flags.excludedByDefault]

UnscannedNames == {"m.mjs", "data.json"}

\* the records of the project whose unscanned file is named u: at most one of
\* them carries a flag
ProjectFilesNamed(u) ==
  {<<FlaggedFileData("/p/A.ts", contentOf(ia), IF flagged = 1 THEN flags ELSE NoFlags),
     FlaggedFileData("/p/b.ts", contentOf(ib), IF flagged = 2 THEN flags ELSE NoFlags),
     FlaggedFileData("/p/" \o u, cu, IF flagged = 3 THEN flags ELSE NoFlags),
     FlaggedFileData("/p/c.ts", contentOf(<<>>), IF flagged = 4 THEN flags ELSE NoFlags)>> :
     ia \in {<<>>, <<"./b">>, <<"./" \o u>>, <<"./b", "./" \o u>>},
     ib \in {<<>>, <<"./c">>},
     cu \in {<<>>, contentOf(<<"./c">>)},
     flagged \in 1..4, flags \in FileFlags}

ProjectFiles == UNION {ProjectFilesNamed(u) : u \in UnscannedNames}

ProjectSelections(all) == {<<all[1]>>, <<all[3]>>, <<all[1], all[3]>>}

ProjectInit ==
  /\ allFiles \in ProjectFiles
  /\ selectedFiles \in ProjectSelections(allFiles)
  /\ projectRoot = "/p"
  /\ dependencyFiles = <<>>
  /\ processedFiles = {}
  /\ stack = <<>>
  /\ nextSelected = 1
  /\ pc = "idle"
  /\ result = <<>>
  /\ warnings = <<>>
  /\ scanned = <<>>
  /\ hasPrevious = FALSE
  /\ previousResult = <<>>
  /\ resolveUnused
  /\ extractUnused
  /\ appUnused

SpecProject == ProjectInit /\ [][WalkerNext]_vars

Unflagged(files) ==
  [k \in 1..Len(files) |->
     [files[k] EXCEPT !.isBinary = FALSE, !.isSkipped = FALSE, !.excludedByDefault = FALSE]]

IsFlagged(file) == file.isBinary \/ file.isSkipped \/ file.excludedByDefault

\* C11: the paths returned are the paths returned for the same arguments with
\* every flag cleared, so two calls whose arguments differ only in the flags
\* return the same set of paths
C11_FlagsDoNotChangeTheResult ==
  pc = "done" =>
    Paths(result) = Paths(getDependencyFiles(Unflagged(selectedFiles), Unflagged(allFiles), projectRoot))

\* a flagged record was returned as a dependency
C11_Witness ==
  /\ pc = "done"
  /\ \E k \in 1..Len(result) : IsFlagged(result[k])

\* the extension of the path is none of those a scanner exists for
HasNoScanner(path) ==
  \A e \in {"js", "jsx", "ts", "tsx", "py", "css", "scss", "sass"} :
     ~endsWith(toLowerCase(path), "." \o e)

\* the records with the content of every file without a scanner emptied
Blanked(files) ==
  [k \in 1..Len(files) |->
     IF HasNoScanner(files[k].path) THEN [files[k] EXCEPT !.content = <<"">>] ELSE files[k]]

\* C19: a file whose extension has no scanner raises no error, with or without
\* content, and the call returns what it returns when that file is empty: no
\* dependency is added on its account
C19_UnknownExtensionYieldsNoImports ==
  pc = "done" =>
    /\ \A k \in 1..Len(allFiles) :
         HasNoScanner(allFiles[k].path) => allFiles[k].path \notin SeqToSet(warnings)
    /\ Paths(result) = Paths(getDependencyFiles(Blanked(selectedFiles), Blanked(allFiles), projectRoot))

\* m.mjs or data.json holds an import of './c', it was processed, and c.ts was
\* not returned
C19_Witness ==
  /\ pc = "done"
  /\ \E k \in 1..Len(allFiles) :
       /\ HasNoScanner(allFiles[k].path)
       /\ allFiles[k].content = contentOf(<<"./c">>)
       /\ allFiles[k].path \in SeqToSet(scanned)
       /\ allFiles[k].path \in Paths(result)
  /\ "/p/c.ts" \notin Paths(result)

(***************************************************************************)
(* resolveImportPath as a function of its arguments: the arguments are     *)
(* drawn from a small project, the call is one step.                       *)
(***************************************************************************)
MaxCandidates == 3  \* files in the candidate set of a resolution

CandidatePaths ==
  <<"/p/src/components.ts", "/p/src/components/index.ts",
    "/p/src/x.ts", "/p/src/x.mjs", "/p/src/x.cjs",
    "/p/src/utils/helper.js", "/p/src/utils/helper.ts", "/p/lib/utils/helper.ts",
    "/p/src/x">>

ImportStrings ==
  {"./components", "./x", "./utils/helper", "../utils/helper", "utils/helper",
   "/src/x", "/src/x.ts", "./x.mjs", "components"}

ImportingPaths == {"/p/src/App.ts", "/p/src/utils/a.ts"}

CandidateSets ==
  {With(orderedSeq(Len(CandidatePaths), S), LAMBDA chosen :
     [k \in 1..Len(chosen) |-> FileData(CandidatePaths[chosen[k]], <<"">>)]) :
     S \in {T \in SUBSET (1..Len(CandidatePaths)) : Cardinality(T) <= MaxCandidates}}

ResolveInit ==
  /\ \E ip \in ImportStrings, cf \in ImportingPaths, cs \in CandidateSets :
       resolveArgs = [importPath |-> ip, currentFilePath |-> cf, allFiles |-> cs,
                      projectRoot |-> "/p"]
  /\ resolveResult = <<>>
  /\ resolvePc = "ready"
  /\ walkerUnused
  /\ extractUnused
  /\ appUnused

ResolveImportPath ==
  /\ resolvePc = "ready"
  /\ resolveResult' = resolveImportPath(resolveArgs.importPath, resolveArgs.currentFilePath,
                                        resolveArgs.allFiles, resolveArgs.projectRoot)
  /\ resolvePc' = "returned"
  /\ UNCHANGED <<resolveArgs, walkerVars, extractVars, appVars>>

SpecResolve == ResolveInit /\ [][ResolveImportPath]_vars

\* the directory D of the importing file, and D/rest
CandidateSet == {resolveArgs.allFiles[k].path : k \in 1..Len(resolveArgs.allFiles)}
InImportingDirectory(rest) ==
  IF resolveArgs.currentFilePath = "/p/src/App.ts" THEN "/p/src/" \o rest
  ELSE "/p/src/utils/" \o rest

DocumentedExtensions ==
  {".js", ".ts", ".jsx", ".tsx", ".mjs", ".cjs", ".py", ".css", ".scss", ".sass"}

\* C4: './components' imported in directory D, with no D/components.<ext> and
\* with D/components/index.ts in the candidate set, resolves to
\* D/components/index.ts
C4_IndexFallbackForRelativeImports ==
  (/\ resolvePc = "returned"
   /\ resolveArgs.importPath = "./components"
   /\ InImportingDirectory("components/index.ts") \in CandidateSet
   /\ \A e \in DocumentedExtensions : InImportingDirectory("components" \o e) \notin CandidateSet)
    => InImportingDirectory("components/index.ts") \in SeqToSet(resolveResult)

\* C5: './x' imported in directory D resolves to D/x.mjs (or D/x.cjs) when that
\* is the only candidate with stem x
C5_ModuleExtensionsAreTried ==
  \A e \in {".mjs", ".cjs"} :
    (/\ resolvePc = "returned"
     /\ resolveArgs.importPath = "./x"
     /\ {d \in DocumentedExtensions : InImportingDirectory("x" \o d) \in CandidateSet} = {e})
      => resolveResult = <<InImportingDirectory("x" \o e)>>

\* the candidates that are the extensionless relative import plus a probed extension
SharingTheStem ==
  {c \in CandidateSet :
     \E k \in 1..Len(FILE_EXTENSIONS_default) :
        c = InImportingDirectory(SubSeq(resolveArgs.importPath, 3, Len(resolveArgs.importPath))
                                   \o FILE_EXTENSIONS_default[k])}

\* C6: every candidate that is the extensionless relative import plus one of the
\* probed extensions is returned, however many extensions match
C6_EveryMatchingExtensionIsReturned ==
  (/\ resolvePc = "returned"
   /\ resolveArgs.importPath \in {"./components", "./x", "./utils/helper"})
    => SharingTheStem \subseteq SeqToSet(resolveResult)

\* './utils/helper' with helper.js and helper.ts both candidates: both returned
C6_Witness ==
  /\ resolvePc = "returned"
  /\ resolveArgs.importPath = "./utils/helper"
  /\ Cardinality(SharingTheStem) = 2
  /\ Len(resolveResult) = 2

\* the matching rule of findMatchingFiles as the specification states it: the
\* same path, a path that ends with '/' and the target, or an index file under it
MatchingRule(candidate, target) ==
  \/ samePath(candidate, target)
  \/ endsWith(candidate, "/" \o target)
  \/ \E ix \in {"index.js", "index.ts", "index.jsx", "index.tsx"} :
       endsWith(candidate, "/" \o target \o "/" \o ix)

\* the path the extensions are appended to: the import resolved against the
\* directory of the importing file, or the bare import as written
ProbedBase ==
  IF startsWith(resolveArgs.importPath, "./")
  THEN InImportingDirectory(SubSeq(resolveArgs.importPath, 3, Len(resolveArgs.importPath)))
  ELSE IF resolveArgs.importPath = "../utils/helper"
  THEN (IF resolveArgs.currentFilePath = "/p/src/App.ts" THEN "/p/utils/helper"
        ELSE "/p/src/utils/helper")
  ELSE resolveArgs.importPath

TriedExtensions == SeqToSet(getFileExtensions(resolveArgs.importPath))

ExtensionMatches ==
  {c \in CandidateSet : \E ext \in TriedExtensions : MatchingRule(c, ProbedBase \o ext)}

BareMatches == {c \in CandidateSet : MatchingRule(c, ProbedBase)}

\* C14: for a relative or a bare import the result is the set of matches of the
\* extension-appended candidates when there is one, and the matches of the path
\* without an added extension only when there is none
C14_FallbackOnlyWithoutExtensionMatch ==
  (resolvePc = "returned" /\ ~startsWith(resolveArgs.importPath, "/")) =>
     SeqToSet(resolveResult) = IF ExtensionMatches # {} THEN ExtensionMatches ELSE BareMatches

\* 'components' with components.ts and components/index.ts both candidates: the
\* index file, which the path without extension matches, is not returned
C14_Witness ==
  /\ resolvePc = "returned"
  /\ resolveArgs.importPath = "components"
  /\ {"/p/src/components.ts", "/p/src/components/index.ts"} \subseteq CandidateSet
  /\ "/p/src/components/index.ts" \in BareMatches \ ExtensionMatches
  /\ resolveResult = <<"/p/src/components.ts">>

\* C15: an import that starts with '/' returns exactly the candidates matching
\* projectRoot joined with the import, no extension appended: '/src/x' never
\* returns /p/src/x.ts
C15_AbsoluteImportsAreNotProbed ==
  (resolvePc = "returned" /\ startsWith(resolveArgs.importPath, "/")) =>
     /\ SeqToSet(resolveResult)
          = {c \in CandidateSet : MatchingRule(c, resolveArgs.projectRoot \o resolveArgs.importPath)}
     /\ resolveArgs.importPath = "/src/x" => "/p/src/x.ts" \notin SeqToSet(resolveResult)

\* '/src/x' with /p/src/x and /p/src/x.ts both candidates returns /p/src/x alone
C15_Witness ==
  /\ resolvePc = "returned"
  /\ resolveArgs.importPath = "/src/x"
  /\ {"/p/src/x", "/p/src/x.ts"} \subseteq CandidateSet
  /\ resolveResult = <<"/p/src/x">>

\* the candidates whose path ends with '/utils/helper' and a tried extension
EndingWithTheModule ==
  {c \in CandidateSet :
     \E k \in 1..Len(FILE_EXTENSIONS_default) : endsWith(c, "/utils/helper" \o FILE_EXTENSIONS_default[k])}

\* C16: the bare import 'utils/helper' returns every candidate whose path ends
\* with '/utils/helper' and a tried extension, in whatever directory it lies
C16_EveryDirectoryWithTheModuleIsReturned ==
  (resolvePc = "returned" /\ resolveArgs.importPath = "utils/helper") =>
     SeqToSet(resolveResult) = EndingWithTheModule

\* /p/src/utils/helper.ts and /p/lib/utils/helper.ts are both returned
C16_Witness ==
  /\ resolvePc = "returned"
  /\ resolveArgs.importPath = "utils/helper"
  /\ {"/p/src/utils/helper.ts", "/p/lib/utils/helper.ts"} \subseteq SeqToSet(resolveResult)

(***************************************************************************)
(* extractLocalImportPaths as a function of its arguments: a JavaScript    *)
(* file of up to MaxStatements import statements, one per line.            *)
(***************************************************************************)
MaxStatements == 2  \* import statements in the extracted file

RawPaths ==
  {"./x", "../x", "/x", "lodash/debounce", "react", "axios", "https://cdn/x.js",
   "./helper.ts", "theme.css"}

StatementStyles == {"import", "require"}

statementText(st) ==
  IF st.style = "import" THEN "import m from '" \o st.path \o "';"
  ELSE "const m = require(\"" \o st.path \o "\");"

Statements == [style : StatementStyles, path : RawPaths]

StatementLists == UNION {[1..n -> Statements] : n \in 0..MaxStatements}

ExtractInit ==
  /\ extractSource \in StatementLists
  /\ extractArgs = [content |-> joinWith([k \in 1..Len(extractSource) |->
                                            statementText(extractSource[k])], "\n"),
                    filePath |-> "/p/src/App.ts"]
  /\ extractImports = <<>>
  /\ extractResult = <<>>
  /\ extractPc = "ready"
  /\ walkerUnused
  /\ resolveUnused
  /\ appUnused

ExtractLocalImportPaths ==
  /\ extractPc = "ready"
  /\ extractImports' = parseFileImports(<<extractArgs.content>>, extractArgs.filePath)
  /\ extractResult' = extractLocalImportPaths(<<extractArgs.content>>, extractArgs.filePath)
  /\ extractPc' = "returned"
  /\ UNCHANGED <<extractArgs, extractSource, walkerVars, resolveVars, appVars>>

SpecExtract == ExtractInit /\ [][ExtractLocalImportPaths]_vars

\* the rule of the claim: not a URL, and a path prefix, an extension mark or a slash
KeptByTheRule(raw) ==
  /\ ~startsWith(raw, "http://")
  /\ ~startsWith(raw, "https://")
  /\ \/ startsWith(raw, "./")
     \/ startsWith(raw, "../")
     \/ startsWith(raw, "/")
     \/ \E e \in {".js", ".ts", ".jsx", ".tsx", ".py", ".css", ".scss", ".sass"} : includes(raw, e)
     \/ includes(raw, "/")

WithoutSourceExtension(raw) ==
  IF \E e \in {".js", ".ts", ".py"} : endsWith(raw, e) THEN SubSeq(raw, 1, Len(raw) - 3)
  ELSE IF \E e \in {".jsx", ".tsx"} : endsWith(raw, e) THEN SubSeq(raw, 1, Len(raw) - 4)
  ELSE raw

RECURSIVE KeptStatements(_)
KeptStatements(sts) ==
  IF Len(sts) = 0 THEN <<>>
  ELSE (IF KeptByTheRule(Head(sts).path) THEN <<WithoutSourceExtension(Head(sts).path)>> ELSE <<>>)
       \o KeptStatements(Tail(sts))

\* C9: the paths returned are, in order, the raw paths the rule keeps (source
\* extension removed); './x', '../x', '/x' and 'lodash/debounce' are kept and
\* 'react', 'axios' and 'https://cdn/x.js' are dropped
C9_KeepsExactlyTheLocalPaths ==
  extractPc = "returned" =>
    /\ extractResult = KeptStatements(extractSource)
    /\ \A k \in 1..Len(extractSource) :
         /\ extractSource[k].path \in {"./x", "../x", "/x", "lodash/debounce"}
              => extractSource[k].path \in SeqToSet(extractResult)
         /\ extractSource[k].path \in {"react", "axios", "https://cdn/x.js"}
              => extractSource[k].path \notin SeqToSet(extractResult)

\* a kept path and a dropped URL in the same file
C9_Witness ==
  /\ extractPc = "returned"
  /\ Len(extractSource) = 2
  /\ extractSource[1].path = "https://cdn/x.js"
  /\ extractSource[2].path = "lodash/debounce"
  /\ extractResult = <<"lodash/debounce">>

(***************************************************************************)
(* The JavaScript scanner on one static import statement of each shape of  *)
(* import clause, in a .ts or a .jsx file.                                 *)
(***************************************************************************)
ClauseShapes ==
  {"default", "named", "namedList", "namespace", "defaultAndNamed", "defaultAndNamespace"}

importClause(shape) ==
  CASE shape = "default" -> "a"
    [] shape = "named" -> "{a}"
    [] shape = "namedList" -> "{ a, b }"
    [] shape = "namespace" -> "* as a"
    [] shape = "defaultAndNamed" -> "a, {b}"
    [] shape = "defaultAndNamespace" -> "a, * as b"

LocalSpecifiers ==
  {"./x", "../x", "/x", "./helper.ts", "lodash/debounce", "./utils/helper.ts", "./theme.css",
   "./a.js", "./a.jsx", "./a.tsx", "./a.py", "./a.scss", "./a.sass"}

staticImport(shape, quote, specifier) ==
  "import " \o importClause(shape) \o " from " \o quote \o specifier \o quote \o ";"

ScanInit ==
  /\ \E shape \in ClauseShapes, quote \in QuoteChars, specifier \in LocalSpecifiers,
        filePath \in {"/p/src/App.ts", "/p/src/View.jsx"} :
       /\ extractSource = <<[style |-> shape, path |-> specifier]>>
       /\ extractArgs = [content |-> staticImport(shape, quote, specifier), filePath |-> filePath]
  /\ extractImports = <<>>
  /\ extractResult = <<>>
  /\ extractPc = "ready"
  /\ walkerUnused
  /\ resolveUnused
  /\ appUnused

SpecScan == ScanInit /\ [][ExtractLocalImportPaths]_vars

\* C20: whatever the shape of the import clause, the specifier of a single-line
\* static import is captured: the (local) specifier is the one path extracted,
\* its source extension removed
C20_EveryClauseShapeIsCaptured ==
  extractPc = "returned" => extractResult = <<WithoutSourceExtension(extractSource[1].path)>>

SourceExtensions == {".js", ".ts", ".jsx", ".tsx", ".py"}
StyleExtensions == {".css", ".scss", ".sass"}

\* the local ones among the paths of the declarations found
LocalDeclared == SelectSeq([k \in 1..Len(extractImports) |-> extractImports[k].path], KeptByTheRule)

\* C22: every local import path comes back without its trailing .js, .ts, .jsx,
\* .tsx or .py, and unchanged when it ends in .css, .scss or .sass (or in none
\* of these); './utils/helper.ts' becomes './utils/helper' and './theme.css' stays
C22_SourceExtensionsAreRemoved ==
  extractPc = "returned" =>
    /\ Len(extractResult) = Len(LocalDeclared)
    /\ \A k \in 1..Len(LocalDeclared) :
         /\ \A e \in SourceExtensions :
              endsWith(LocalDeclared[k], e) => extractResult[k] \o e = LocalDeclared[k]
         /\ (\A e \in SourceExtensions : ~endsWith(LocalDeclared[k], e))
              => extractResult[k] = LocalDeclared[k]
         /\ (\E e \in StyleExtensions : endsWith(LocalDeclared[k], e))
              => extractResult[k] = LocalDeclared[k]
         /\ LocalDeclared[k] = "./utils/helper.ts" => extractResult[k] = "./utils/helper"
         /\ LocalDeclared[k] = "./theme.css" => extractResult[k] = "./theme.css"

\* './utils/helper.ts' was imported and came back as './utils/helper'
C22_Witness ==
  /\ extractPc = "returned"
  /\ LocalDeclared = <<"./utils/helper.ts">>
  /\ extractResult = <<"./utils/helper">>

(***************************************************************************)
(* The Python scanner on a file of up to two statements: 'import' of one   *)
(* or two modules, and 'from <module> import <names>'.                     *)
(***************************************************************************)
PythonStatements ==
  [style : {"import"}, path : {""}, names : {<<"os">>, <<"os", "sys">>}]
    \cup [style : {"from"}, path : {"m", "pkg.mod", "utils"},
          names : {<<"n">>, <<"a", "b">>, <<"*">>}]

pythonText(st) ==
  IF st.style = "import" THEN "import " \o joinWith(st.names, ", ")
  ELSE "from " \o st.path \o " import " \o joinWith(st.names, ", ")

PythonInit ==
  /\ extractSource \in UNION {[1..n -> PythonStatements] : n \in 0..2}
  /\ extractArgs = [content |-> joinWith([k \in 1..Len(extractSource) |->
                                            pythonText(extractSource[k])], "\n"),
                    filePath |-> "/p/app.py"]
  /\ extractImports = <<>>
  /\ extractResult = <<>>
  /\ extractPc = "ready"
  /\ walkerUnused
  /\ resolveUnused
  /\ appUnused

SpecPython == PythonInit /\ [][ExtractLocalImportPaths]_vars

\* the declarations the claim gives a statement: one 'import' declaration per
\* module of an import statement, one 'from' declaration for a from-import
DeclarationsOf(st) ==
  IF st.style = "import" THEN [k \in 1..Len(st.names) |-> [type |-> "import", path |-> st.names[k]]]
  ELSE <<[type |-> "from", path |-> st.path]>>

\* C21: 'from m import n' yields one from-import declaration with path m and
\* no declaration for n: the declarations of a file are, line by line, those of
\* its statements
C21_FromImportYieldsOneDeclaration ==
  extractPc = "returned" =>
    extractImports = FlatConcat([k \in 1..Len(extractSource) |-> DeclarationsOf(extractSource[k])])

(***************************************************************************)
(* App.tsx and DependencySelectionModal.tsx: the selection, the detection  *)
(* of dependencies and the modal.  A handler computes the state its        *)
(* batched updates leave; render then runs the effects whose dependencies  *)
(* changed.  An action is the handler together with those effects.         *)
(***************************************************************************)
somePath(paths, p) == \E k \in 1..Len(paths) : arePathsEqual(paths[k], p)

withoutPath(paths, p) ==
  SelectFrom(paths, {q \in SeqToSet(paths) : ~arePathsEqual(q, p)})

normalizeEach(paths) == [k \in 1..Len(paths) |-> normalizePath(paths[k])]

AppState ==
  [selectedFiles |-> appSelectedFiles, autoInclude |-> autoIncludeDependencies,
   detected |-> detectedDependencies, selectedDeps |-> selectedDependencies,
   selectedDepsSet |-> FALSE, modalOpen |-> isDependencyModalOpen,
   detecting |-> isDetectingDependencies,
   currentSelected |-> currentSelected, timer |-> detectTimer]

\* what a detectDependencies created by the current render closes over
Closure ==
  [selectedFiles |-> appSelectedFiles, detected |-> detectedDependencies,
   detecting |-> isDetectingDependencies]

toggleFileSelection(st, filePath) ==
  With(normalizePath(filePath), LAMBDA normalizedPath :
    IF somePath(st.selectedFiles, normalizedPath)
    THEN [st EXCEPT !.selectedFiles = withoutPath(@, normalizedPath),
                    !.selectedDeps = withoutPath(@, normalizedPath),
                    !.selectedDepsSet = TRUE]
    ELSE [st EXCEPT !.selectedFiles = Append(@, normalizedPath)])

\* const newDependencies = dependencyPaths.filter(...)
newDependenciesOf(dependencies, closure) ==
  With([k \in 1..Len(dependencies) |-> normalizePath(dependencies[k].path)], LAMBDA dependencyPaths :
    SelectFrom(dependencyPaths,
               {q \in SeqToSet(dependencyPaths) :
                  ~somePath(closure.selectedFiles, q) /\ ~somePath(closure.detected, q)}))

\* const selectedFileData = allFiles.filter(...)
selectedFileDataOf(closure) ==
  SelectFrom(appAllFiles, {f \in SeqToSet(appAllFiles) : somePath(closure.selectedFiles, f.path)})

\* mutant: the dependencies found are put into the selection at once
detectDependenciesAndInclude(st, closure, thrown) ==
  IF Len(closure.selectedFiles) = 0 \/ Len(appAllFiles) = 0 \/ closure.detecting THEN st
  ELSE IF thrown THEN [st EXCEPT !.detecting = FALSE]
  ELSE With(getDependencyFiles(selectedFileDataOf(closure), appAllFiles, selectedFolder),
            LAMBDA dependencies :
         With(newDependenciesOf(dependencies, closure), LAMBDA newDependencies :
           IF Len(newDependencies) > 0
           THEN [st EXCEPT !.detected = newDependencies, !.modalOpen = TRUE,
                           !.selectedFiles = @ \o newDependencies, !.detecting = FALSE]
           ELSE [st EXCEPT !.detecting = FALSE]))

\* mutant: the flag is reset at the end of the try block, not in a finally
detectDependenciesResettingInTry(st, closure, thrown) ==
  IF Len(closure.selectedFiles) = 0 \/ Len(appAllFiles) = 0 \/ closure.detecting THEN st
  ELSE IF thrown THEN [st EXCEPT !.detecting = TRUE]
  ELSE With(getDependencyFiles(selectedFileDataOf(closure), appAllFiles, selectedFolder),
            LAMBDA dependencies :
         With(newDependenciesOf(dependencies, closure), LAMBDA newDependencies :
           IF Len(newDependencies) > 0
           THEN [st EXCEPT !.detected = newDependencies, !.modalOpen = TRUE, !.detecting = FALSE]
           ELSE [st EXCEPT !.detecting = FALSE]))

\* detectDependencies as created by the render whose selectedFiles,
\* detectedDependencies and isDetectingDependencies are closure's; thrown: the
\* try block raises an exception.  setIsDetectingDependencies(true) is followed,
\* on every way out of the try block, by the finally's
\* setIsDetectingDependencies(false) in the same batch of updates.
detectDependencies(st, closure, thrown) ==
  IF Len(closure.selectedFiles) = 0 \/ Len(appAllFiles) = 0 \/ closure.detecting THEN st
  ELSE IF thrown THEN [st EXCEPT !.detecting = FALSE]
  ELSE With(getDependencyFiles(selectedFileDataOf(closure), appAllFiles, selectedFolder),
            LAMBDA dependencies :
         With(newDependenciesOf(dependencies, closure), LAMBDA newDependencies :
           IF Len(newDependencies) > 0
           THEN [st EXCEPT !.detected = newDependencies, !.modalOpen = TRUE, !.detecting = FALSE]
           ELSE [st EXCEPT !.detecting = FALSE]))

\* normalizedDeps.forEach: a dependency not yet in updatedSelection is pushed
pushMissing(updatedSelection, normalizedDeps) ==
  With(normalizedDeps, LAMBDA deps :
    LET pushed[k \in Nat, selection \in Seq(STRING)] ==
          IF k > Len(deps) THEN selection
          ELSE pushed[k + 1, IF somePath(selection, deps[k]) THEN selection
                             ELSE Append(selection, deps[k])]
    IN pushed[1, updatedSelection])

handleDependencySelection(st, selectedDeps) ==
  With(normalizeEach(selectedDeps), LAMBDA normalizedDeps :
    With(normalizeEach(st.selectedDeps), LAMBDA previousDeps :
      With(SelectFrom(st.selectedFiles,
                      {q \in SeqToSet(st.selectedFiles) :
                         ~somePath(previousDeps, q) \/ somePath(normalizedDeps, q)}),
           LAMBDA updatedSelection :
        [st EXCEPT !.selectedFiles = pushMissing(updatedSelection, normalizedDeps),
                   !.selectedDeps = normalizedDeps,
                   !.selectedDepsSet = TRUE,
                   !.modalOpen = FALSE])))

toggleDependencySelection(state, path, selected) ==
  With(state, LAMBDA st :
    With(normalizePath(path), LAMBDA normalizedPath :
      IF selected
      THEN IF somePath(st.selectedDeps, normalizedPath) THEN st
           ELSE [st EXCEPT !.selectedDeps = Append(@, normalizedPath), !.selectedDepsSet = TRUE]
      ELSE [st EXCEPT !.selectedDeps = withoutPath(@, normalizedPath), !.selectedDepsSet = TRUE]))

normalizedDetected(st) == normalizeEach(st.detected)

modalDependencyFiles(st) ==
  With(normalizedDetected(st), LAMBDA detected :
    SelectFrom(appAllFiles, {f \in SeqToSet(appAllFiles) : somePath(detected, f.path)}))

handleToggle(st, path) ==
  With(normalizePath(path), LAMBDA normalizedPath :
    With(somePath(st.currentSelected, normalizedPath), LAMBDA isAlreadySelected :
      toggleDependencySelection(
        [st EXCEPT !.currentSelected = IF isAlreadySelected THEN withoutPath(@, normalizedPath)
                                       ELSE Append(@, normalizedPath)],
        normalizedPath, ~isAlreadySelected)))

\* normalizedDetected.forEach((path) => onToggleDependency(path, selected))
toggleEach(state, paths, selected) ==
  LET toggled[k \in 0..Len(paths)] ==
        IF k = 0 THEN state ELSE toggleDependencySelection(toggled[k - 1], paths[k], selected)
  IN toggled[Len(paths)]

handleSelectAll(st) ==
  With(normalizedDetected(st), LAMBDA detected :
    toggleEach([st EXCEPT !.currentSelected = detected], detected, TRUE))

handleSelectNone(st) ==
  With(normalizedDetected(st), LAMBDA detected :
    toggleEach([st EXCEPT !.currentSelected = <<>>], detected, FALSE))

handleConfirm(st) == handleDependencySelection(st, st.currentSelected)

\* the effect on [autoIncludeDependencies, selectedFiles.length, allFiles.length,
\* isDetectingDependencies]
detectionEffect(before, rendered) ==
  With(rendered, LAMBDA after :
    IF /\ after.autoInclude = before.autoInclude
       /\ Len(after.selectedFiles) = Len(before.selectedFiles)
       /\ after.detecting = before.detecting
    THEN after
    ELSE IF after.autoInclude /\ Len(after.selectedFiles) > 0 /\ Len(appAllFiles) > 0
            /\ ~after.detecting
    THEN [after EXCEPT !.timer = <<[selectedFiles |-> after.selectedFiles,
                                    detected |-> after.detected,
                                    detecting |-> after.detecting]>>]
    ELSE [after EXCEPT !.timer = <<>>, !.detected = <<>>, !.selectedDeps = <<>>,
                       !.selectedDepsSet = TRUE])

\* the modal's effect on [selectedDependencies, isOpen]
modalEffect(before, rendered) ==
  With(rendered, LAMBDA after :
    IF after.selectedDepsSet \/ after.modalOpen # before.modalOpen
    THEN [after EXCEPT !.currentSelected = normalizeEach(after.selectedDeps)]
    ELSE after)

render(before, after) == modalEffect(before, detectionEffect(before, after))

Commit(after) ==
  \E st \in {render(AppState, after)} :
     /\ appSelectedFiles' = st.selectedFiles
     /\ autoIncludeDependencies' = st.autoInclude
     /\ detectedDependencies' = st.detected
     /\ selectedDependencies' = st.selectedDeps
     /\ isDependencyModalOpen' = st.modalOpen
     /\ currentSelected' = st.currentSelected
     /\ detectTimer' = st.timer
     /\ isDetectingDependencies' = st.detecting
     /\ UNCHANGED <<appAllFiles, selectedFolder, walkerVars, resolveVars, extractVars>>

\* a click on a file of the tree
ToggleFileSelection ==
  /\ ~isDependencyModalOpen
  /\ \E k \in 1..Len(appAllFiles) : Commit(toggleFileSelection(AppState, appAllFiles[k].path))

\* the "Detect Dependencies" switch
SetAutoIncludeDependencies ==
  /\ ~isDependencyModalOpen
  /\ Commit([AppState EXCEPT !.autoInclude = ~autoIncludeDependencies])

\* the "Detect" button
ClickDetect ==
  /\ ~isDependencyModalOpen
  /\ Len(appSelectedFiles) > 0
  /\ ~isDetectingDependencies
  /\ \E thrown \in BOOLEAN : Commit(detectDependencies(AppState, Closure, thrown))

\* the callback of the timeout: the detectDependencies of the render that set it
TimerCallback(thrown) ==
  Commit(detectDependencies([AppState EXCEPT !.timer = <<>>], detectTimer[1], thrown))

\* the timeout set by the detection effect expires
DetectTimerFires ==
  /\ detectTimer # <<>>
  /\ \E thrown \in BOOLEAN : TimerCallback(thrown)

HandleToggle ==
  /\ isDependencyModalOpen
  /\ \E files \in {modalDependencyFiles(AppState)} :
       \E k \in 1..Len(files) : Commit(handleToggle(AppState, normalizePath(files[k].path)))

HandleSelectAll ==
  /\ isDependencyModalOpen
  /\ Len(modalDependencyFiles(AppState)) > 0
  /\ Commit(handleSelectAll(AppState))

HandleSelectNone ==
  /\ isDependencyModalOpen
  /\ Len(modalDependencyFiles(AppState)) > 0
  /\ Commit(handleSelectNone(AppState))

HandleConfirm ==
  /\ isDependencyModalOpen
  /\ Len(modalDependencyFiles(AppState)) > 0
  /\ Commit(handleConfirm(AppState))

OnClose ==
  /\ isDependencyModalOpen
  /\ Commit([AppState EXCEPT !.modalOpen = FALSE])

AppProjects ==
  {<<FileData("/p/A.ts", <<"import b from './b';">>),
     FileData("/p/b.ts", <<"import c from './c';">>),
     FileData("/p/c.ts", <<"export default 1;">>)>>,
   <<FileData("/p/A.ts", <<"import b from './b';\nimport c from './c';">>),
     FileData("/p/b.ts", <<"import A from './A';">>),
     FileData("/p/c.ts", <<"export default 1;">>)>>}

AppInit ==
  /\ appAllFiles \in AppProjects
  /\ selectedFolder = "/p"
  /\ appSelectedFiles = <<>>
  /\ autoIncludeDependencies \in BOOLEAN
  /\ detectedDependencies = <<>>
  /\ selectedDependencies = <<>>
  /\ isDependencyModalOpen = FALSE
  /\ isDetectingDependencies = FALSE
  /\ currentSelected = <<>>
  /\ detectTimer = <<>>
  /\ walkerUnused
  /\ resolveUnused
  /\ extractUnused

AppNext ==
  \/ ToggleFileSelection
  \/ SetAutoIncludeDependencies
  \/ ClickDetect
  \/ DetectTimerFires
  \/ HandleToggle
  \/ HandleSelectAll
  \/ HandleSelectNone
  \/ HandleConfirm
  \/ OnClose

SpecApp == AppInit /\ [][AppNext]_vars

\* the paths that enter selectedFiles in a step and are, before or after it,
\* detected dependencies
DependenciesAdded ==
  {q \in SeqToSet(appSelectedFiles') :
     /\ ~somePath(appSelectedFiles, q)
     /\ somePath(detectedDependencies, q) \/ somePath(detectedDependencies', q)}

WalkYieldsNothing(closure) ==
  getDependencyFiles(selectedFileDataOf(closure), appAllFiles, selectedFolder) = <<>>

\* C18: a run of detectDependencies whose walk discovers no dependency leaves
\* the dependency modal open (in its 'No dependencies found' state)
C18_NoDependenciesOpensTheModal ==
  [][(/\ detectTimer # <<>>
      /\ WalkYieldsNothing(detectTimer[1])
      /\ TimerCallback(FALSE)) => isDependencyModalOpen']_vars

\* the paths the walk of a run of detectDependencies returns that are not in
\* selectedFiles, neither as the run sees it nor as it is now
UnselectedFound(closure) ==
  LET dependencies == getDependencyFiles(selectedFileDataOf(closure), appAllFiles, selectedFolder)
  IN {normalizePath(dependencies[k].path) : k \in 1..Len(dependencies)}
       \ {q \in STRING : somePath(closure.selectedFiles, q) \/ somePath(appSelectedFiles, q)}

\* C23: a run of detectDependencies, started with the modal closed, whose walk
\* returns files that are not selected opens the modal and offers those files,
\* also when they were offered before and the modal was closed unconfirmed
C23_UnselectedDependenciesAreOffered ==
  [][(/\ detectTimer # <<>>
      /\ ~isDependencyModalOpen
      /\ UnselectedFound(detectTimer[1]) # {}
      /\ TimerCallback(FALSE))
       => /\ isDependencyModalOpen'
          /\ \A q \in UnselectedFound(detectTimer[1]) : somePath(detectedDependencies', q)]_vars

\* C24: from the opening of the modal to its closing without confirmation,
\* selectedFiles and selectedDependencies stay as they were when it opened:
\* closing (onClose) assigns neither, so no step taken with the modal open,
\* other than the confirmation, may change either
C24_CancelRestoresTheSelection ==
  [][(isDependencyModalOpen /\ ~HandleConfirm)
       => (appSelectedFiles' = appSelectedFiles /\ selectedDependencies' = selectedDependencies)]_vars

\* C25: while the modal is open every path of its current selection is one of
\* the detected dependencies it lists, so the count shown as selected is at
\* most the count shown as detected
C25_SelectionWithinDetected ==
  isDependencyModalOpen =>
    /\ \A k \in 1..Len(currentSelected) :
         somePath(normalizeEach(detectedDependencies), currentSelected[k])
    /\ Len(currentSelected) <= Len(normalizeEach(detectedDependencies))

\* C29: no call of detectDependencies that has completed leaves
\* isDetectingDependencies true, whether it returned at the precondition, found
\* dependencies, found none or caught an exception: in every state a handler
\* leaves, the flag is false and the Detect button is disabled only while
\* nothing is selected
C29_DetectingIsResetAfterEveryRun == ~isDetectingDependencies

\* a detection has run from the timer, found dependencies and opened the modal
C29_Witness ==
  /\ isDependencyModalOpen
  /\ autoIncludeDependencies
  /\ detectedDependencies # <<>>
  /\ detectTimer = <<>>
  /\ ~isDetectingDependencies

====
